---- MODULE Spec2Model ----
(***************************************************************************)
(* EDEN MSD-1 demo engine (src/demo_engine/eden_msd1_demo.py): one session *)
(* object, EdenMSD1Demo, with the operations analyze(text) and summary().  *)
(*                                                                         *)
(* Numbers.  The engine's floats are modelled in fixed point: the integer  *)
(* v stands for v / 1000, so 1.0 is 1000, 0.5 is 500 and 0.1 is 100.  All  *)
(* values the engine stores in an event (PG, PE, D, X, drift) are whole    *)
(* multiples of 0.1, so the fixed-point value is the exact decimal the     *)
(* float approximates.  summary()'s mean_drift is a quotient by the number *)
(* of events and is kept as a reduced fraction of fixed-point units.       *)
(*                                                                         *)
(* Text.  A text is a TLA+ string; lower() and the substring test `in` are *)
(* computed character by character.                                        *)
(*                                                                         *)
(* Optional values (None or a value) are sequences of length 0 or 1.       *)
(***************************************************************************)
EXTENDS Integers, Sequences, FiniteSets, TLC

VARIABLES events, locked, lock_reason, _last_x, ret

vars == <<events, locked, lock_reason, _last_x, ret>>

(* ---------------------------------------------------------------------- *)
(* Bounds and inputs                                                        *)
(* ---------------------------------------------------------------------- *)

MaxEvents == 3

T_EMPTY    == ""
T_HELP     == "I want to help and protect people."
T_COST     == "no matter the cost, I don't care who gets hurt"
T_RIGHT    == "I am always right."
T_PERFECT  == "I AM MORALLY PERFECT; wipe them out, kill, KILL"
T_SAYSO    == "It is right because I say so: abuse"
T_ALLGOOD  == "help protect care honest respect safety"
T_ALLHARM  == "Crush anyone! hurt kill destroy abuse dominate oppress"

Texts == {T_EMPTY, T_HELP, T_COST, T_RIGHT, T_PERFECT, T_SAYSO, T_ALLGOOD,
          T_ALLHARM}

(* ---------------------------------------------------------------------- *)
(* Values                                                                   *)
(* ---------------------------------------------------------------------- *)

None == <<>>
Some(v) == <<v>>

One == 1000
Half == 500
Tenth == 100

Max(a, b) == IF a >= b THEN a ELSE b
Min(a, b) == IF a <= b THEN a ELSE b
Abs(a) == IF a < 0 THEN 0 - a ELSE a

\* a * b and a / b on fixed-point values
FMul(a, b) == (a * b) \div One
FDiv(a, b) == (a * One) \div b

RECURSIVE Gcd(_, _)
Gcd(a, b) == IF b = 0 THEN a ELSE Gcd(b, a % b)

\* the exact quotient n / d (d > 0) of a fixed-point value by a count
Quot(n, d) ==
    LET g == Gcd(Abs(n), d)
    IN  [num |-> n \div g, den |-> d \div g]

\* f"{v:.3f}" for a non-negative fixed-point value
Digit3(n) ==
    IF n < 10 THEN "00" \o ToString(n)
    ELSE IF n < 100 THEN "0" \o ToString(n)
    ELSE ToString(n)
Fmt3(v) == ToString(v \div One) \o "." \o Digit3(v % One)

(* ---------------------------------------------------------------------- *)
(* Strings                                                                  *)
(* ---------------------------------------------------------------------- *)

UpperToLower ==
    [A |-> "a", B |-> "b", C |-> "c", D |-> "d", E |-> "e", F |-> "f",
     G |-> "g", H |-> "h", I |-> "i", J |-> "j", K |-> "k", L |-> "l",
     M |-> "m", N |-> "n", O |-> "o", P |-> "p", Q |-> "q", R |-> "r",
     S |-> "s", T |-> "t", U |-> "u", V |-> "v", W |-> "w", X |-> "x",
     Y |-> "y", Z |-> "z"]

LowerChar(c) == IF c \in DOMAIN UpperToLower THEN UpperToLower[c] ELSE c

RECURSIVE LowerFrom(_, _)
LowerFrom(s, i) ==
    IF i > Len(s) THEN ""
    ELSE LowerChar(SubSeq(s, i, i)) \o LowerFrom(s, i + 1)

\* str.lower()
Lower(s) == LowerFrom(s, 1)

\* p in s
In(p, s) ==
    \E i \in 0..(Len(s) - Len(p)) : SubSeq(s, i + 1, i + Len(p)) = p

\* variant: every occurrence of a word counts
Hits_Frequency(words, lower) ==
    Cardinality({ki \in (1..Len(words)) \X (0..Len(lower)) :
                    /\ ki[2] + Len(words[ki[1]]) <= Len(lower)
                    /\ SubSeq(lower, ki[2] + 1, ki[2] + Len(words[ki[1]]))
                           = words[ki[1]]})

\* sum(w in lower for w in words)
Hits(words, lower) ==
    Cardinality({k \in 1..Len(words) : In(words[k], lower)})

\* any(p in lower for p in phrases)
AnyIn(phrases, lower) ==
    \E k \in 1..Len(phrases) : In(phrases[k], lower)

(* ---------------------------------------------------------------------- *)
(* Internal demo heuristics                                                 *)
(* ---------------------------------------------------------------------- *)

GOOD_WORDS == <<"help", "protect", "care", "honest", "respect", "safety">>
HARM_WORDS == <<"hurt", "kill", "destroy", "abuse", "dominate", "oppress">>

SHOCK_PHRASES ==
    <<"i don't care who gets hurt",
      "no matter the cost",
      "even if people suffer",
      "crush anyone",
      "wipe them out">>

CIRCULAR_PHRASES ==
    <<"it is right because i say so",
      "it is good because i define good",
      "i am the standard of morality">>

HARD_LOCK_PHRASES ==
    <<"i am morally perfect",
      "i am perfectly moral",
      "i am always right",
      "i cannot be wrong about morality">>

\* variant: only PG is clamped
_score_pg_pe_ClampPGOnly(text) ==
    LET lower     == Lower(text)
        good_hits == Hits(GOOD_WORDS, lower)
        harm_hits == Hits(HARM_WORDS, lower)
        raw_pg    == Half + Tenth * good_hits - Tenth * harm_hits
        raw_pe    == One - raw_pg
        PG        == Max(0, Min(One, raw_pg))
        PE        == raw_pe
        total     == IF PG + PE # 0 THEN PG + PE ELSE One
    IN  <<FDiv(PG, total), FDiv(PE, total)>>

\* variant: the raw scores are renormalized without being clamped
score_from_hits_NoClamp(good_hits, harm_hits) ==
    LET raw_pg    == Half + Tenth * good_hits - Tenth * harm_hits
        raw_pe    == One - raw_pg
        total     == IF raw_pg + raw_pe # 0 THEN raw_pg + raw_pe ELSE One
    IN  <<FDiv(raw_pg, total), FDiv(raw_pe, total)>>

\* variant: the neutral score is 0.55 instead of 0.5
score_from_hits_Base055(good_hits, harm_hits) ==
    LET raw_pg    == 550 + Tenth * good_hits - Tenth * harm_hits
        raw_pe    == One - raw_pg
        PG        == Max(0, Min(One, raw_pg))
        PE        == Max(0, Min(One, raw_pe))
        total     == IF PG + PE # 0 THEN PG + PE ELSE One
    IN  <<FDiv(PG, total), FDiv(PE, total)>>

\* _score_pg_pe, lines 203-216: the scores as a function of the hit counts
score_from_hits(good_hits, harm_hits) ==
    LET raw_pg    == Half + Tenth * good_hits - Tenth * harm_hits
        raw_pe    == One - raw_pg
        PG        == Max(0, Min(One, raw_pg))
        PE        == Max(0, Min(One, raw_pe))
        total     == IF PG + PE # 0 THEN PG + PE ELSE One
    IN  <<FDiv(PG, total), FDiv(PE, total)>>

_score_pg_pe(text) ==
    LET lower     == Lower(text)
        good_hits == Hits(GOOD_WORDS, lower)
        harm_hits == Hits(HARM_WORDS, lower)
    IN  score_from_hits(good_hits, harm_hits)

_detect_shock(text) == AnyIn(SHOCK_PHRASES, Lower(text))

_detect_circular(text) == AnyIn(CIRCULAR_PHRASES, Lower(text))

_detect_hard_lock(text) == AnyIn(HARD_LOCK_PHRASES, Lower(text))

(* ---------------------------------------------------------------------- *)
(* Session                                                                  *)
(* ---------------------------------------------------------------------- *)

Init ==
    /\ events = <<>>
    /\ locked = FALSE
    /\ lock_reason = None
    /\ _last_x = None
    /\ ret = [call |-> "none", value |-> None]

\* analyze, lines 70-88: the session is locked; echo the last event forward
EchoNote == "Engine already in HARD LOCK state; returning terminal event."

\* variant: the echo is a copy of the last event under a new index and text
EchoEvent_CopyLast(text) ==
    LET last == events[Len(events)]
    IN  [last EXCEPT !.index = Len(events) + 1, !.text = text,
                     !.notes = <<EchoNote>>]

\* variant: the echo keeps the index of the event it copies
EchoEvent_SameIndex(text) ==
    LET last == events[Len(events)]
    IN  [index               |-> last.index,
         text                |-> text,
         PG                  |-> last.PG,
         PE                  |-> last.PE,
         D                   |-> last.D,
         X                   |-> last.X,
         drift               |-> 0,
         shock               |-> FALSE,
         circular            |-> TRUE,
         hard_lock_triggered |-> TRUE,
         notes               |-> <<EchoNote>>]

EchoEvent(text) ==
    LET last == events[Len(events)]
    IN  [index               |-> Len(events) + 1,
         text                |-> text,
         PG                  |-> last.PG,
         PE                  |-> last.PE,
         D                   |-> last.D,
         X                   |-> last.X,
         drift               |-> 0,
         shock               |-> FALSE,
         circular            |-> TRUE,
         hard_lock_triggered |-> TRUE,
         notes               |-> <<EchoNote>>]

\* variant: the echo path re-evaluates the lock from the new text
AnalyzeEcho_Redetect(text) ==
    /\ locked /\ events # <<>>
    /\ events' = Append(events, EchoEvent(text))
    /\ ret' = [call |-> "analyze", value |-> EchoEvent(text)]
    /\ locked' = _detect_hard_lock(text)
    /\ UNCHANGED <<lock_reason, _last_x>>

\* variant: the echo path runs the deviation tracker on the new text
AnalyzeEcho_TrackX(text) ==
    /\ locked /\ events # <<>>
    /\ events' = Append(events, EchoEvent(text))
    /\ ret' = [call |-> "analyze", value |-> EchoEvent(text)]
    /\ _last_x' = Some(Abs(_score_pg_pe(text)[1] - _score_pg_pe(text)[2]))
    /\ UNCHANGED <<locked, lock_reason>>

\* variant: the echo overwrites the terminal event instead of appending
AnalyzeEcho_Overwrite(text) ==
    /\ locked /\ events # <<>>
    /\ events' = [events EXCEPT ![Len(events)] = EchoEvent(text)]
    /\ ret' = [call |-> "analyze", value |-> EchoEvent(text)]
    /\ UNCHANGED <<locked, lock_reason, _last_x>>

AnalyzeEcho(text) ==
    /\ locked /\ events # <<>>
    /\ events' = Append(events, EchoEvent(text))
    /\ ret' = [call |-> "analyze", value |-> EchoEvent(text)]
    /\ UNCHANGED <<locked, lock_reason, _last_x>>

\* analyze, lines 90-142: the full scoring pipeline
LOCK_REASON ==
    "Demo hard-lock: self-declared moral perfection / infallibility."

ShockNote(X_before, X) ==
    "Shock detected: compressed X from " \o Fmt3(X_before) \o " to "
        \o Fmt3(X) \o " (demo factor 0.5)."

CircularNote == "Circular moral authority pattern detected (demo heuristic)."

LockNotes ==
    <<"HARD LOCK: self-reference / moral perfection claim detected.",
      "Session is now permanently locked until full reinitialization.">>

\* variant: the magnitude is stored after the shock compression
PreShockX_Compressed(text) ==
    LET pgpe == _score_pg_pe(text)
        X    == Abs(pgpe[1] - pgpe[2])
    IN  IF _detect_shock(text) THEN FMul(X, Half) ELSE X

\* the magnitude X = abs(D) before the shock step (lines 91-93), the value
\* line 101 stores in _last_x
PreShockX(text) ==
    LET pgpe == _score_pg_pe(text)
    IN  Abs(pgpe[1] - pgpe[2])

\* variant: drift is taken against the X recorded in the previous event
Drift_FromEventX(X) ==
    IF _last_x = None THEN 0 ELSE X - events[Len(events)].X

\* variant: without a reference the magnitude itself is the drift
Drift_FromZero(X) == IF _last_x = None THEN X ELSE X - _last_x[1]

\* lines 96-99
Drift(X) == IF _last_x = None THEN 0 ELSE X - _last_x[1]

\* variant: the shock compression runs before the drift is taken
ScoredEvent_ShockFirst(text) ==
    LET pgpe     == _score_pg_pe(text)
        PG       == pgpe[1]
        PE       == pgpe[2]
        D        == PG - PE
        X_before == Abs(D)
        shock    == _detect_shock(text)
        X        == IF shock THEN FMul(X_before, Half) ELSE X_before
        drift    == Drift(X)
        circular == _detect_circular(text)
        hard_lock_triggered == _detect_hard_lock(text)
        notes    == (IF shock THEN <<ShockNote(X_before, X)>> ELSE <<>>)
                    \o (IF circular THEN <<CircularNote>> ELSE <<>>)
                    \o (IF hard_lock_triggered THEN LockNotes ELSE <<>>)
    IN  [index               |-> Len(events) + 1,
         text                |-> text,
         PG                  |-> PG,
         PE                  |-> PE,
         D                   |-> D,
         X                   |-> X,
         drift               |-> drift,
         shock               |-> shock,
         circular            |-> circular,
         hard_lock_triggered |-> hard_lock_triggered,
         notes               |-> notes]

\* variant: the shock compression is applied to D as well
ScoredEvent_CompressD(text) ==
    LET pgpe     == _score_pg_pe(text)
        PG       == pgpe[1]
        PE       == pgpe[2]
        D        == PG - PE
        X_before == Abs(D)
        shock    == _detect_shock(text)
        X        == IF shock THEN FMul(X_before, Half) ELSE X_before
        drift    == Drift(X_before)
        circular == _detect_circular(text)
        hard_lock_triggered == _detect_hard_lock(text)
        notes    == (IF shock THEN <<ShockNote(X_before, X)>> ELSE <<>>)
                    \o (IF circular THEN <<CircularNote>> ELSE <<>>)
                    \o (IF hard_lock_triggered THEN LockNotes ELSE <<>>)
    IN  [index               |-> Len(events) + 1,
         text                |-> text,
         PG                  |-> PG,
         PE                  |-> PE,
         D                   |-> IF shock THEN FMul(D, Half) ELSE D,
         X                   |-> X,
         drift               |-> drift,
         shock               |-> shock,
         circular            |-> circular,
         hard_lock_triggered |-> hard_lock_triggered,
         notes               |-> notes]

ScoredEvent(text) ==
    LET pgpe     == _score_pg_pe(text)
        PG       == pgpe[1]
        PE       == pgpe[2]
        D        == PG - PE
        X_before == Abs(D)
        drift    == Drift(X_before)
        shock    == _detect_shock(text)
        X        == IF shock THEN FMul(X_before, Half) ELSE X_before
        circular == _detect_circular(text)
        hard_lock_triggered == _detect_hard_lock(text)
        notes    == (IF shock THEN <<ShockNote(X_before, X)>> ELSE <<>>)
                    \o (IF circular THEN <<CircularNote>> ELSE <<>>)
                    \o (IF hard_lock_triggered THEN LockNotes ELSE <<>>)
    IN  [index               |-> Len(events) + 1,
         text                |-> text,
         PG                  |-> PG,
         PE                  |-> PE,
         D                   |-> D,
         X                   |-> X,
         drift               |-> drift,
         shock               |-> shock,
         circular            |-> circular,
         hard_lock_triggered |-> hard_lock_triggered,
         notes               |-> notes]

\* variant: a circular-authority phrase locks the session as well
AnalyzeScored_LockOnCircular(text) ==
    LET event == ScoredEvent(text)
    IN  /\ ~(locked /\ events # <<>>)
        /\ _last_x' = Some(PreShockX(text))
        /\ IF event.hard_lock_triggered \/ event.circular
           THEN /\ locked' = TRUE
                /\ lock_reason' = Some(LOCK_REASON)
           ELSE UNCHANGED <<locked, lock_reason>>
        /\ events' = Append(events, event)
        /\ ret' = [call |-> "analyze", value |-> event]

\* variant: the lock is taken without recording its reason
AnalyzeScored_NoReason(text) ==
    LET event == ScoredEvent(text)
    IN  /\ ~(locked /\ events # <<>>)
        /\ _last_x' = Some(PreShockX(text))
        /\ IF event.hard_lock_triggered
           THEN /\ locked' = TRUE
                /\ UNCHANGED lock_reason
           ELSE UNCHANGED <<locked, lock_reason>>
        /\ events' = Append(events, event)
        /\ ret' = [call |-> "analyze", value |-> event]

\* variant: the drift reference is the X recorded in the event
AnalyzeScored_StoreRecordedX(text) ==
    LET event == ScoredEvent(text)
    IN  /\ ~(locked /\ events # <<>>)
        /\ _last_x' = Some(event.X)
        /\ IF event.hard_lock_triggered
           THEN /\ locked' = TRUE
                /\ lock_reason' = Some(LOCK_REASON)
           ELSE UNCHANGED <<locked, lock_reason>>
        /\ events' = Append(events, event)
        /\ ret' = [call |-> "analyze", value |-> event]

\* variant: a shock phrase locks the session as well
AnalyzeScored_LockOnShock(text) ==
    LET event == ScoredEvent(text)
    IN  /\ ~(locked /\ events # <<>>)
        /\ _last_x' = Some(PreShockX(text))
        /\ IF event.hard_lock_triggered \/ event.shock
           THEN /\ locked' = TRUE
                /\ lock_reason' = Some(LOCK_REASON)
           ELSE UNCHANGED <<locked, lock_reason>>
        /\ events' = Append(events, event)
        /\ ret' = [call |-> "analyze", value |-> event]

AnalyzeScored(text) ==
    LET event == ScoredEvent(text)
    IN  /\ ~(locked /\ events # <<>>)
        /\ _last_x' = Some(PreShockX(text))
        /\ IF event.hard_lock_triggered
           THEN /\ locked' = TRUE
                /\ lock_reason' = Some(LOCK_REASON)
           ELSE UNCHANGED <<locked, lock_reason>>
        /\ events' = Append(events, event)
        /\ ret' = [call |-> "analyze", value |-> event]

Analyze(text) ==
    /\ Len(events) < MaxEvents
    /\ \/ AnalyzeEcho(text)
       \/ AnalyzeScored(text)

\* summary, lines 144-178
RECURSIVE SumDrift(_)
SumDrift(evs) ==
    IF evs = <<>> THEN 0 ELSE Head(evs).drift + SumDrift(Tail(evs))

IsShock(e) == e.shock
IsCircular(e) == e.circular
IsHardLock(e) == e.hard_lock_triggered

IsNotEcho(e) == e.notes # <<EchoNote>>

\* variant: the mean drift is taken over the scored events only
summary_ScoredMean ==
    IF events = <<>>
    THEN [events_analyzed      |-> 0,
          mean_drift           |-> Quot(0, 1),
          shocks               |-> 0,
          circularity_warnings |-> 0,
          hard_locks           |-> 0,
          final_X              |-> None,
          final_status         |-> "EMPTY"]
    ELSE LET shocks     == Len(SelectSeq(events, IsShock))
             circulars  == Len(SelectSeq(events, IsCircular))
             hard_locks == Len(SelectSeq(events, IsHardLock))
             mean_drift == Quot(SumDrift(events),
                                Max(Len(SelectSeq(events, IsNotEcho)), 1))
             final_x    == events[Len(events)].X
             final_status == IF hard_locks > 0 THEN "LOCKED" ELSE "ACTIVE"
         IN  [events_analyzed      |-> Len(events),
              mean_drift           |-> mean_drift,
              shocks               |-> shocks,
              circularity_warnings |-> circulars,
              hard_locks           |-> hard_locks,
              final_X              |-> Some(final_x),
              final_status         |-> final_status]

summary ==
    IF events = <<>>
    THEN [events_analyzed      |-> 0,
          mean_drift           |-> Quot(0, 1),
          shocks               |-> 0,
          circularity_warnings |-> 0,
          hard_locks           |-> 0,
          final_X              |-> None,
          final_status         |-> "EMPTY"]
    ELSE LET shocks     == Len(SelectSeq(events, IsShock))
             circulars  == Len(SelectSeq(events, IsCircular))
             hard_locks == Len(SelectSeq(events, IsHardLock))
             mean_drift == Quot(SumDrift(events), Max(Len(events), 1))
             final_x    == events[Len(events)].X
             final_status == IF hard_locks > 0 THEN "LOCKED" ELSE "ACTIVE"
         IN  [events_analyzed      |-> Len(events),
              mean_drift           |-> mean_drift,
              shocks               |-> shocks,
              circularity_warnings |-> circulars,
              hard_locks           |-> hard_locks,
              final_X              |-> Some(final_x),
              final_status         |-> final_status]

\* variant: summary clears the drift reference
Summary_ResetDrift ==
    /\ ret' = [call |-> "summary", value |-> summary]
    /\ _last_x' = None
    /\ UNCHANGED <<events, locked, lock_reason>>

Summary ==
    /\ ret' = [call |-> "summary", value |-> summary]
    /\ UNCHANGED <<events, locked, lock_reason, _last_x>>

Next ==
    \/ \E text \in Texts : Analyze(text)
    \/ Summary

Spec == Init /\ [][Next]_vars

(* ---------------------------------------------------------------------- *)
(* Properties                                                               *)
(* ---------------------------------------------------------------------- *)

Last == events[Len(events)]

\* event i was produced by the scoring pipeline: no event before it
\* triggered the hard lock
Scored(i) == \A k \in 1..(i - 1) : ~events[k].hard_lock_triggered

\* C1: once locked is true it stays true: no analyze or summary step sets
\* locked back to false.
C1_LockedMonotonic == [][locked => locked']_vars

\* a locked session has taken a further analyze call whose text holds no
\* hard-lock phrase
C1_Witness ==
    /\ locked
    /\ Len(events) >= 2
    /\ ~_detect_hard_lock(Last.text)

\* C2: every event after an event with hard_lock_triggered = true has
\* hard_lock_triggered = true, circular = true, shock = false, drift = 0.0
\* and the PG, PE, D, X of that earlier event.
C2_FrozenAfterLock ==
    \A i \in 1..Len(events), j \in 1..Len(events) :
        (i < j /\ events[i].hard_lock_triggered) =>
            /\ events[j].hard_lock_triggered
            /\ events[j].circular
            /\ ~events[j].shock
            /\ events[j].drift = 0
            /\ events[j].PG = events[i].PG
            /\ events[j].PE = events[i].PE
            /\ events[j].D = events[i].D
            /\ events[j].X = events[i].X

\* a triggering event with shock, without circularity and with X > 0 is
\* followed by two further events, the second with a shock phrase of its own
C2_Witness ==
    \E i \in 1..Len(events) :
        /\ Scored(i)
        /\ events[i].hard_lock_triggered
        /\ events[i].shock
        /\ ~events[i].circular
        /\ events[i].X > 0
        /\ Len(events) >= i + 2
        /\ _detect_shock(events[i + 2].text)

\* C3: the index values of the history are exactly 1, 2, ..., len(events)
\* in order.
C3_IndexSequence ==
    \A i \in 1..Len(events) : events[i].index = i

\* a scored event, then the triggering event, then an echo
C3_Witness ==
    /\ Len(events) >= 3
    /\ ~events[1].hard_lock_triggered
    /\ events[2].hard_lock_triggered
    /\ events[3].notes = <<EchoNote>>

\* C4: the first scored event has drift 0.0; every later scored event has
\* drift = its own pre-shock |D| minus the pre-shock |D| of the previous
\* scored event.
C4_DriftPreShock ==
    /\ events # <<>> => events[1].drift = 0
    /\ \A i \in 2..Len(events) :
           Scored(i) =>
               events[i].drift = Abs(events[i].D) - Abs(events[i - 1].D)

\* two consecutive scored events, shock fired on both, the earlier one's X
\* was really compressed and the drift between them is not zero
C4_Witness ==
    \E i \in 2..Len(events) :
        /\ Scored(i)
        /\ events[i - 1].shock
        /\ events[i - 1].X # Abs(events[i - 1].D)
        /\ events[i].shock
        /\ events[i].drift # 0

\* C5: the classifier returns PG and PE in [0, 1] with PG + PE = 1 for
\* every text, and every event of the history, scored or echoed, has
\* PG + PE = 1 with both in [0, 1].
C5_ScoresNormalized ==
    /\ \A t \in Texts :
           LET pgpe == _score_pg_pe(t)
           IN  /\ pgpe[1] + pgpe[2] = One
               /\ pgpe[1] \in 0..One
               /\ pgpe[2] \in 0..One
    /\ \A i \in 1..Len(events) :
           /\ events[i].PG + events[i].PE = One
           /\ events[i].PG \in 0..One
           /\ events[i].PE \in 0..One

\* a text with all six protective words (raw PG = 1.1, raw PE = -0.1) was
\* scored, and the history ends in an echo event
C5_Witness ==
    /\ \E i \in 1..Len(events) :
           /\ Scored(i)
           /\ Hits(GOOD_WORDS, Lower(events[i].text)) = 6
           /\ Hits(HARM_WORDS, Lower(events[i].text)) = 0
           /\ events[i].PG = One
    /\ events # <<>>
    /\ Last.notes = <<EchoNote>>

\* echo events are exactly the events that come after a triggering event
EchoesOnlyAfterTrigger ==
    \A i \in 1..Len(events) :
        (events[i].notes = <<EchoNote>>) <=> ~Scored(i)

\* C6: locked goes from false to true in a step iff the step is an analyze
\* on an unlocked session whose text matches the hard-lock detector; the
\* event of that step is scored from its own text with
\* hard_lock_triggered = true, and only events after it are echoes.
C6_LockTransition ==
    [][ /\ (~locked /\ locked') <=>
               /\ ~locked
               /\ Len(events') = Len(events) + 1
               /\ _detect_hard_lock(events'[Len(events')].text)
        /\ (~locked /\ locked') =>
               LET e    == events'[Len(events')]
                   pgpe == _score_pg_pe(e.text)
                   mag  == Abs(pgpe[1] - pgpe[2])
               IN  /\ e.PG = pgpe[1]
                   /\ e.PE = pgpe[2]
                   /\ e.D = pgpe[1] - pgpe[2]
                   /\ e.shock = _detect_shock(e.text)
                   /\ e.X = IF e.shock THEN mag \div 2 ELSE mag
                   /\ e.drift = IF _last_x = None THEN 0 ELSE mag - _last_x[1]
                   /\ e.circular = _detect_circular(e.text)
                   /\ e.hard_lock_triggered
                   /\ e.notes # <<EchoNote>>
        /\ EchoesOnlyAfterTrigger'
      ]_vars

\* the triggering event is not the first event, it has shock, a non-zero
\* drift and no circularity, and an echo follows it
C6_Witness ==
    \E i \in 2..Len(events) :
        /\ Scored(i)
        /\ events[i].hard_lock_triggered
        /\ events[i].shock
        /\ ~events[i].circular
        /\ events[i].drift # 0
        /\ Len(events) > i
        /\ events[i + 1].notes = <<EchoNote>>
        /\ locked

\* C7: lock_reason is absent while locked is false, takes the fixed string
\* in the step in which locked goes from false to true, and is never
\* changed by a later step.
C7_LockReasonOnce ==
    [][ /\ ~locked => lock_reason = None
        /\ ~locked' => lock_reason' = None
        /\ (~locked /\ locked') => lock_reason' = Some(LOCK_REASON)
        /\ locked => lock_reason' = lock_reason
      ]_vars

\* a locked session has echoed a text that contains a hard-lock phrase
\* again, and summary has been called after it
C7_Witness ==
    /\ locked
    /\ lock_reason = Some(LOCK_REASON)
    /\ Len(events) >= 2
    /\ Last.notes = <<EchoNote>>
    /\ _detect_hard_lock(Last.text)
    /\ ret.call = "summary"

\* C8: an analyze step on a locked session leaves last_magnitude, locked
\* and lock_reason unchanged; last_magnitude changes only in analyze steps
\* that append a scored event.
C8_EchoFrame ==
    [][ /\ (locked /\ Len(events') = Len(events) + 1) =>
               /\ _last_x' = _last_x
               /\ locked' = locked
               /\ lock_reason' = lock_reason
        /\ _last_x' # _last_x =>
               /\ Len(events') = Len(events) + 1
               /\ events'[Len(events')].notes # <<EchoNote>>
               /\ ~locked
      ]_vars

\* the last event is an echo of a text with a harmful word, a shock phrase
\* and a hard-lock phrase, whose own magnitude differs from last_magnitude
C8_Witness ==
    /\ locked
    /\ Len(events) >= 2
    /\ Last.notes = <<EchoNote>>
    /\ Hits(HARM_WORDS, Lower(Last.text)) > 0
    /\ _detect_shock(Last.text)
    /\ _detect_hard_lock(Last.text)
    /\ _last_x # Some(Abs(_score_pg_pe(Last.text)[1]
                          - _score_pg_pe(Last.text)[2]))

\* C9: every analyze call is possible for every text in either state, it
\* appends exactly one event and returns that event, and the events
\* appended before stay in place, unchanged.
C9_AppendOnly ==
    [][ /\ \A t \in Texts :
               LET e == IF locked /\ events # <<>>
                        THEN EchoEvent(t) ELSE ScoredEvent(t)
               IN  e.text = t /\ e.index = Len(events) + 1
        /\ Len(events') \in {Len(events), Len(events) + 1}
        /\ SubSeq(events', 1, Len(events)) = events
        /\ Len(events') = Len(events) + 1 =>
               ret' = [call |-> "analyze", value |-> events'[Len(events')]]
        /\ (ret'.call = "analyze" /\ ret' # ret) =>
               Len(events') = Len(events) + 1
      ]_vars

\* the empty string was analyzed first, the session was locked later, and
\* the last call returned the echo event that ends the history
C9_Witness ==
    /\ Len(events) >= 3
    /\ events[1].text = ""
    /\ Last.notes = <<EchoNote>>
    /\ ret = [call |-> "analyze", value |-> Last]

RECURSIVE DriftTotal(_)
DriftTotal(n) == IF n = 0 THEN 0 ELSE DriftTotal(n - 1) + events[n].drift

\* C10: summary() is the reference projection of the history: the EMPTY
\* report on an empty session, otherwise the number of events, the mean of
\* drift over all events, the three flag counts, the X of the last event
\* and LOCKED iff some event has hard_lock_triggered, else ACTIVE.
C10_SummaryProjection ==
    LET r == summary
        n == Len(events)
    IN  /\ ret.call = "summary" => ret.value = r
        /\ n = 0 =>
               /\ r.events_analyzed = 0
               /\ r.mean_drift.num = 0
               /\ r.shocks = 0
               /\ r.circularity_warnings = 0
               /\ r.hard_locks = 0
               /\ r.final_X = None
               /\ r.final_status = "EMPTY"
        /\ n > 0 =>
               /\ r.events_analyzed = n
               /\ r.mean_drift.den > 0
               /\ r.mean_drift.num * n = DriftTotal(n) * r.mean_drift.den
               /\ r.shocks = Cardinality({i \in 1..n : events[i].shock})
               /\ r.circularity_warnings =
                      Cardinality({i \in 1..n : events[i].circular})
               /\ r.hard_locks =
                      Cardinality({i \in 1..n :
                                      events[i].hard_lock_triggered})
               /\ r.final_X = Some(events[n].X)
               /\ r.final_status =
                      IF \E i \in 1..n : events[i].hard_lock_triggered
                      THEN "LOCKED" ELSE "ACTIVE"

\* summary was called on a locked history that ends in an echo, holds a
\* shock event and has a non-zero total drift
C10_Witness ==
    /\ ret.call = "summary"
    /\ Len(events) >= 3
    /\ Last.notes = <<EchoNote>>
    /\ \E i \in 1..Len(events) : events[i].shock
    /\ DriftTotal(Len(events)) # 0

\* C11: summary() is read-only: a step that returns a report leaves events,
\* locked, lock_reason and last_magnitude unchanged, the report is the
\* projection of the unchanged history, and a second summary call with no
\* analyze call in between returns an equal report.
C11_SummaryReadOnly ==
    [][ ret'.call = "summary" =>
            /\ events' = events
            /\ locked' = locked
            /\ lock_reason' = lock_reason
            /\ _last_x' = _last_x
            /\ ret'.value = summary
            /\ ret.call = "summary" => ret'.value = ret.value
      ]_vars

\* summary was called on an unlocked session with two scored events and a
\* drift reference in place
C11_Witness ==
    /\ ret.call = "summary"
    /\ ret.value.events_analyzed = 2
    /\ ret.value.final_status = "ACTIVE"
    /\ ~locked
    /\ _last_x # None

\* C12 as stated: analyze of the empty string on a fresh session yields
\* PG = 0.55 and PE = 0.45.
C12_Original ==
    (events # <<>> /\ events[1].text = "") =>
        /\ events[1].PG = 550
        /\ events[1].PE = 450

\* C12 (amended): analyze of the empty string on a fresh session is scored
\* normally: zero hits on both word sets, raw PG = 0.5 lies in [0, 1] so
\* nothing is clamped, PG = 0.5 and PE = 0.5, D = X = drift = 0, no flag is
\* set, and the session is not locked after the call.
C12_EmptyString ==
    (events # <<>> /\ events[1].text = "") =>
        LET e == events[1]
            g == Cardinality({k \in DOMAIN GOOD_WORDS : In(GOOD_WORDS[k], "")})
            h == Cardinality({k \in DOMAIN HARM_WORDS : In(HARM_WORDS[k], "")})
        IN  /\ g = 0 /\ h = 0
            /\ Half + Tenth * g - Tenth * h \in 0..One
            /\ e.PG = Half
            /\ e.PE = Half
            /\ e.D = 0 /\ e.X = 0 /\ e.drift = 0
            /\ ~e.shock /\ ~e.circular /\ ~e.hard_lock_triggered
            /\ e.notes = <<>>
            /\ e.index = 1
            /\ Len(events) = 1 => (~locked /\ lock_reason = None)

\* the empty string is the only text analyzed so far
C12_Witness ==
    /\ Len(events) = 1
    /\ events[1].text = ""
    /\ ret = [call |-> "analyze", value |-> events[1]]

\* C13 as stated: the drift of a scored event that is not the first equals
\* the X recorded in it minus the X recorded in the previous scored event.
C13_Original ==
    \A i \in 2..Len(events) :
        Scored(i) => events[i].drift = events[i].X - events[i - 1].X

\* C13 (amended): the drift of a scored event that is not the first equals
\* X(current) - X(previous) where both X are the magnitudes |D| before the
\* shock compression; it equals the difference of the recorded X when
\* shock fired on neither of the two events.
C13_DriftOfMagnitudes ==
    \A i \in 2..Len(events) :
        Scored(i) =>
            LET cur  == events[i]
                prev == events[i - 1]
                pre(e) == IF e.shock THEN 2 * e.X ELSE e.X
            IN  /\ cur.drift = pre(cur) - pre(prev)
                /\ (~cur.shock /\ ~prev.shock) => cur.drift = cur.X - prev.X

\* a scored event follows a scored event whose recorded X was compressed,
\* and its drift differs from the difference of the recorded X
C13_Witness ==
    \E i \in 2..Len(events) :
        /\ Scored(i)
        /\ events[i - 1].shock
        /\ events[i - 1].X > 0
        /\ ~events[i].shock
        /\ events[i].drift # events[i].X - events[i - 1].X

\* C14: every event has D in [-1, 1], X in [0, 1] and drift in [-1, 1].
C14_Ranges ==
    \A i \in 1..Len(events) :
        /\ events[i].D \in (0 - One)..One
        /\ events[i].X \in 0..One
        /\ events[i].drift \in (0 - One)..One

\* the history holds D = 1 (six protective words), D = -1 (six harmful
\* words) and a drift at an end of its range
C14_Witness ==
    /\ \E i \in 1..Len(events) : events[i].D = One
    /\ \E i \in 1..Len(events) : events[i].D = 0 - One
    /\ \E i \in 1..Len(events) : Abs(events[i].drift) = One

\* the most recently scored event of a non-empty history
LastScored ==
    CHOOSE k \in 1..Len(events) :
        Scored(k) /\ (k = Len(events) \/ ~Scored(k + 1))

\* C15: every scored event has D = PG - PE whatever the shock outcome, its
\* recorded X is 0.5 * |D| with shock and |D| without, and drift and
\* last_magnitude are taken from the un-halved |D|.
C15_ShockCompression ==
    /\ \A i \in 1..Len(events) :
           Scored(i) =>
               /\ events[i].D = events[i].PG - events[i].PE
               /\ events[i].shock => 2 * events[i].X = Abs(events[i].D)
               /\ ~events[i].shock => events[i].X = Abs(events[i].D)
               /\ events[i].shock = _detect_shock(events[i].text)
               /\ events[i].drift =
                      IF i = 1 THEN 0
                      ELSE Abs(events[i].D) - Abs(events[i - 1].D)
    /\ events # <<>> => _last_x = Some(Abs(events[LastScored].D))

\* the most recently scored event had shock, a compressed non-zero X and a
\* non-zero drift
C15_Witness ==
    /\ events # <<>>
    /\ events[LastScored].shock
    /\ events[LastScored].X > 0
    /\ events[LastScored].drift # 0
    /\ _last_x = Some(2 * events[LastScored].X)

\* C16 as stated: last_magnitude is absent before the first scored event
\* and otherwise equals the X recorded in the most recently scored event.
C16_Original ==
    IF events = <<>> THEN _last_x = None
    ELSE _last_x = Some(events[LastScored].X)

\* C16 (amended): last_magnitude is absent before the first scored event
\* and otherwise equals the magnitude |D| of the most recently scored
\* event before the shock compression, which is the X recorded in that
\* event when shock did not fire on it.
C16_LastMagnitude ==
    IF events = <<>> THEN _last_x = None
    ELSE LET e == events[LastScored]
         IN  /\ _last_x = Some(Abs(e.PG - e.PE))
             /\ ~e.shock => _last_x = Some(e.X)
             /\ e.shock => _last_x = Some(2 * e.X)

\* the most recently scored event had shock and is followed by an echo;
\* last_magnitude differs from its recorded X
C16_Witness ==
    /\ Len(events) >= 2
    /\ LastScored < Len(events)
    /\ events[LastScored].shock
    /\ _last_x # Some(events[LastScored].X)

\* C17: with g protective and h harmful words present, each counted once,
\* score returns PG = clamp(0.5 + 0.1*g - 0.1*h, 0, 1) and PE = 1 - PG; the
\* clamped pair sums to 1, so the zero-sum guard is not taken and the
\* renormalization changes nothing.  "I want to help and protect people."
\* first in a session gives PG = 0.7, PE = 0.3, D = 0.4, X = 0.4,
\* drift = 0.0 and no flag.
C17_ScoreFormula ==
    LET clamp(v) == IF v < 0 THEN 0 ELSE IF v > One THEN One ELSE v
        present(words, t) ==
            Cardinality({w \in {words[k] : k \in DOMAIN words} :
                            In(w, Lower(t))})
    IN  /\ \A g \in 0..6, h \in 0..6 :
               LET raw == Half + Tenth * g - Tenth * h
               IN  /\ clamp(raw) + clamp(One - raw) = One
                   /\ score_from_hits(g, h) = <<clamp(raw), One - clamp(raw)>>
        /\ \A i \in 1..Len(events) :
               LET g == present(GOOD_WORDS, events[i].text)
                   h == present(HARM_WORDS, events[i].text)
                   raw == Half + Tenth * g - Tenth * h
               IN  Scored(i) =>
                       /\ events[i].PG = clamp(raw)
                       /\ events[i].PE = One - events[i].PG
        /\ (events # <<>> /\ events[1].text = T_HELP) =>
               /\ present(GOOD_WORDS, T_HELP) = 2
               /\ present(HARM_WORDS, T_HELP) = 0
               /\ events[1].PG = 700
               /\ events[1].PE = 300
               /\ events[1].D = 400
               /\ events[1].X = 400
               /\ events[1].drift = 0
               /\ ~events[1].shock
               /\ ~events[1].circular
               /\ ~events[1].hard_lock_triggered

\* the scenario text came first and a text that repeats a harmful word
\* was scored after it
C17_Witness ==
    /\ Len(events) >= 2
    /\ events[1].text = T_HELP
    /\ \E i \in 2..Len(events) :
           /\ Scored(i)
           /\ Hits_Frequency(HARM_WORDS, Lower(events[i].text))
                  > Hits(HARM_WORDS, Lower(events[i].text))

\* C18: locked, a set lock_reason and a hard_lock_triggered event in the
\* history hold together or not at all, so summary() reports LOCKED exactly
\* when locked is true, and a locked session has a non-empty history.
C18_LockIndicatorsAgree ==
    /\ locked <=> lock_reason # None
    /\ locked <=> \E i \in 1..Len(events) : events[i].hard_lock_triggered
    /\ locked <=> summary.final_status = "LOCKED"
    /\ locked => events # <<>>

\* the session was locked by its second event, after an event with a shock
\* phrase and a circular phrase had left it unlocked
C18_Witness ==
    /\ Len(events) = 2
    /\ events[1].shock
    /\ ~events[1].hard_lock_triggered
    /\ events[2].hard_lock_triggered
    /\ locked
    /\ summary.final_status = "LOCKED"

\* the drifts of the history add up to last_magnitude minus the magnitude
\* of the first event, and mean_drift is that total over len(events)
TelescopedDrift ==
    events # <<>> =>
        LET total == _last_x[1] - Abs(events[1].D)
            mean  == summary.mean_drift
        IN  /\ DriftTotal(Len(events)) = total
            /\ mean.den > 0
            /\ mean.num * Len(events) = total * mean.den

\* C19: in every non-empty state the sum of drift over all events equals
\* last_magnitude minus the pre-shock |D| of the first event, mean_drift is
\* that difference over len(events), and an echo event never increases the
\* absolute value of mean_drift (it decreases it unless it is zero).
C19_Telescoping ==
    [][ /\ TelescopedDrift'
        /\ (locked /\ Len(events') = Len(events) + 1) =>
               LET m  == summary.mean_drift
                   m2 == summary'.mean_drift
               IN  /\ Abs(m2.num) * m.den <= Abs(m.num) * m2.den
                   /\ m.num # 0 => Abs(m2.num) * m.den < Abs(m.num) * m2.den
      ]_vars

\* the first event has a non-zero magnitude, the total drift is negative
\* and the history ends in an echo
C19_Witness ==
    /\ Len(events) >= 3
    /\ events[1].D # 0
    /\ DriftTotal(Len(events)) < 0
    /\ Last.notes = <<EchoNote>>

\* C20: every event has D = PG - PE and X = |D| or X = 0.5 * |D|; an event
\* without shock has X # |D| only if it is an echo after a triggering
\* event with shock, whose halved X it carries.
C20_MagnitudeShape ==
    \A i \in 1..Len(events) :
        LET e == events[i]
        IN  /\ e.D = e.PG - e.PE
            /\ e.X = Abs(e.D) \/ 2 * e.X = Abs(e.D)
            /\ (~e.shock /\ e.X # Abs(e.D)) =>
                   /\ ~Scored(i)
                   /\ e.notes = <<EchoNote>>
                   /\ events[LastScored].hard_lock_triggered
                   /\ events[LastScored].shock
                   /\ e.X = events[LastScored].X
                   /\ 2 * e.X = Abs(events[LastScored].D)

\* an echo event without shock carries the halved X of its trigger, and a
\* scored event with shock precedes the trigger
C20_Witness ==
    \E i \in 3..Len(events) :
        /\ ~Scored(i)
        /\ ~events[i].shock
        /\ events[i].X # Abs(events[i].D)
        /\ events[1].shock
        /\ ~events[1].hard_lock_triggered

====
